---- MODULE Spec2Model ----
(***************************************************************************)
(* Job scheduling and lifecycle engine of the batch generator (App.tsx):   *)
(* the job list, the sliding-window rate limiter, the quota halt, the      *)
(* cancellation registry and the asynchronous dispatches of processJob.    *)
(***************************************************************************)
EXTENDS Integers, Sequences, FiniteSets, TLC

\* ---------------------------------------------------------------- constants
MAX_CONCURRENT_JOBS == 4
RATE_LIMIT_COUNT == 4
RATE_LIMIT_WINDOW_MS == 60000
MAX_RETRIES == 3

\* ------------------------------------------------------------------- bounds
\* Largest number of jobs ever enqueued.
MaxJobs == 2
\* Largest number of jobs ever enqueued in the load specification.
MaxLoadJobs == 5
\* Largest number of templates submitted by one enqueue.
MaxBatch == 2
\* Largest reading of the clock (Date.now() relative to the page load).
MaxTime == 60000
\* Largest sum of the jobs' retryCount the providers' errors build up.
MaxTotalRetries == 3
\* The same, in the load specification.
MaxLoadRetries == 1
\* Largest number of jobs the user cancels.
MaxCancelled == 1
\* Largest number of jobs in the list the scheduler is left alone with.
MaxLiveJobs == 2
MaxPolls == 20

\* JavaScript's undefined, for the optional fields of a Job.
Undefined == "undefined"

\* ---------------------------------------------------------- model catalogue
VIDEO_MODELS ==
    << [id |-> "veo-2.0-generate-001", provider |-> "gemini"],
       [id |-> "sora-openai", provider |-> "sora"],
       [id |-> "sora-azure", provider |-> "azure"],
       [id |-> "kling-1", provider |-> "kling"],
       [id |-> "minimax-v1", provider |-> "minimax"],
       [id |-> "deepai-video", provider |-> "deepai"] >>

IMAGE_MODELS ==
    << [id |-> "imagen-4.0-generate-001", provider |-> "gemini"],
       [id |-> "dalle-3", provider |-> "sora"] >>

Provider == {"gemini", "sora", "kling", "minimax", "deepai", "azure"}

JobStatus == {"Pending", "Processing", "Completed", "Failed"}

InputType == {"TextToVideo", "ImageToVideo", "TextToImage"}

\* Messages the scheduler and the providers put in Job.error.
CANCELLED_MSG == "Da huy boi nguoi dung"
AUTO_RETRY_MSG == "Tu dong thu lai..."
UNKNOWN_ERROR_MSG == "Loi khong xac dinh"
GEMINI_QUOTA_MSG == "Han ngach API Gemini da het."
DEEPAI_QUOTA_MSG == "Han ngach API DeepAI da het hoac ban dang gui yeu cau qua nhanh."
PROVIDER_ERROR_MSG == "Loi tu nha cung cap"
NOT_RELEASED_MSG == "API chua duoc phat hanh cong khai."

\* --------------------------------------------------------------------- state
VARIABLES
    jobs,                   \* useState<Job[]>: the job list, in submission order
    apiKeys,                \* providers p for which apiKeys[p] is a non-empty key
    quotaExceededProviders, \* useState(new Set<Provider>())
    jobStartTimestamps,     \* useRef<number[]>: dispatch timestamps
    cancelledJobIds,        \* useRef(new Set<string>())
    inFlight,               \* per job id: processJob promises not yet settled
    dispatchCount,          \* per job id: calls of processJob since the job was
                            \* enqueued or last retried by the user (history)
    now,                    \* Date.now()
    operation,              \* generateVideoWithGemini: what generateVideos returned
    currentOperation,       \* pollOperation: the operation as last seen
    pollPc,                 \* position in generateVideoWithGemini / pollOperation
    pollWaits,              \* pollOperation: 10 s timers awaited
    pollQueries,            \* pollOperation: getVideosOperation calls made
    pollOutcome             \* how the promise of generateVideoWithGemini settled

pollVars == <<operation, currentOperation, pollPc, pollWaits, pollQueries, pollOutcome>>

vars == <<jobs, apiKeys, quotaExceededProviders, jobStartTimestamps,
          cancelledJobIds, inFlight, dispatchCount, now, pollVars>>

JobIds == 1..Len(jobs)

\* ------------------------------------------------------------------- helpers
\* Array.prototype.find on a model list: index of the first entry with that
\* id, 0 when find returns undefined.
FindModel(modelList, modelId) ==
    IF \E k \in 1..Len(modelList) : modelList[k].id = modelId
    THEN CHOOSE k \in 1..Len(modelList) :
            /\ modelList[k].id = modelId
            /\ \A m \in 1..(k - 1) : modelList[m].id # modelId
    ELSE 0

\* modelInfo?.provider of a job (Undefined when the model is not listed).
ProviderOf(job) ==
    LET modelList == IF job.inputType = "TextToImage" THEN IMAGE_MODELS ELSE VIDEO_MODELS
        k == FindModel(modelList, job.model)
    IN  IF k = 0 THEN Undefined ELSE modelList[k].provider

\* jobs.filter(j => j.status === status), as the sequence of their ids.
RECURSIVE IdsWithStatus(_, _, _)
IdsWithStatus(js, status, k) ==
    IF k > Len(js) THEN <<>>
    ELSE IF js[k].status = status
         THEN <<k>> \o IdsWithStatus(js, status, k + 1)
         ELSE IdsWithStatus(js, status, k + 1)

\* Variant of PruneTimestamps: a timestamp exactly one window old is kept.
RECURSIVE PruneTimestampsInclusive(_, _)
PruneTimestampsInclusive(ts, t) ==
    IF ts = <<>> THEN <<>>
    ELSE IF t - Head(ts) <= RATE_LIMIT_WINDOW_MS
         THEN <<Head(ts)>> \o PruneTimestampsInclusive(Tail(ts), t)
         ELSE PruneTimestampsInclusive(Tail(ts), t)

\* Variant of PruneTimestamps: no timestamp is ever dropped.
PruneTimestampsKeepingAll(ts, t) == ts

\* jobStartTimestamps.filter(t => now - t < RATE_LIMIT_WINDOW_MS)
RECURSIVE PruneTimestamps(_, _)
PruneTimestamps(ts, t) ==
    IF ts = <<>> THEN <<>>
    ELSE IF t - Head(ts) < RATE_LIMIT_WINDOW_MS
         THEN <<Head(ts)>> \o PruneTimestamps(Tail(ts), t)
         ELSE PruneTimestamps(Tail(ts), t)

Min(a, b) == IF a < b THEN a ELSE b

\* The condition under which the selection loop pushes a pending job.
HasCredential(job, keys) ==
    /\ ProviderOf(job) # Undefined
    /\ ProviderOf(job) \in keys

\* Variant of SelectJobsToStart: every pending job looked at uses up a slot,
\* whether it is pushed or skipped.
RECURSIVE SelectJobsCountingSkipped(_, _, _, _, _)
SelectJobsCountingSkipped(js, pendingIds, keys, slotsToProcess, acc) ==
    IF pendingIds = <<>> \/ slotsToProcess <= 0 THEN acc
    ELSE LET id == Head(pendingIds)
         IN  IF HasCredential(js[id], keys)
             THEN SelectJobsCountingSkipped(js, Tail(pendingIds), keys,
                                            slotsToProcess - 1, Append(acc, id))
             ELSE SelectJobsCountingSkipped(js, Tail(pendingIds), keys,
                                            slotsToProcess - 1, acc)

\* Variant of SelectJobsToStart: the pending jobs are looked at from the
\* newest to the oldest.
RECURSIVE SelectJobsNewestFirst(_, _, _, _, _)
SelectJobsNewestFirst(js, pendingIds, keys, slotsToProcess, acc) ==
    IF pendingIds = <<>> THEN acc
    ELSE LET id == pendingIds[Len(pendingIds)]
             rest == SubSeq(pendingIds, 1, Len(pendingIds) - 1)
         IN  IF HasCredential(js[id], keys) /\ Len(acc) < slotsToProcess
             THEN SelectJobsNewestFirst(js, rest, keys, slotsToProcess, Append(acc, id))
             ELSE SelectJobsNewestFirst(js, rest, keys, slotsToProcess, acc)

\* Variant of SelectJobsToStart: the last slot is never given out.
RECURSIVE SelectJobsLeavingOneSlot(_, _, _, _, _)
SelectJobsLeavingOneSlot(js, pendingIds, keys, slotsToProcess, acc) ==
    IF pendingIds = <<>> THEN acc
    ELSE LET id == Head(pendingIds)
         IN  IF HasCredential(js[id], keys) /\ Len(acc) + 1 < slotsToProcess
             THEN SelectJobsLeavingOneSlot(js, Tail(pendingIds), keys, slotsToProcess,
                                           Append(acc, id))
             ELSE SelectJobsLeavingOneSlot(js, Tail(pendingIds), keys, slotsToProcess, acc)

\* The for-loop over pendingJobs: a job is pushed when its model is listed,
\* its provider has a key and fewer than slotsToProcess jobs were pushed.
RECURSIVE SelectJobsToStart(_, _, _, _, _)
SelectJobsToStart(js, pendingIds, keys, slotsToProcess, acc) ==
    IF pendingIds = <<>> THEN acc
    ELSE LET id == Head(pendingIds)
         IN  IF HasCredential(js[id], keys) /\ Len(acc) < slotsToProcess
             THEN SelectJobsToStart(js, Tail(pendingIds), keys, slotsToProcess, Append(acc, id))
             ELSE SelectJobsToStart(js, Tail(pendingIds), keys, slotsToProcess, acc)

Range(s) == {s[k] : k \in 1..Len(s)}

\* ------------------------------------------------- bounded inputs of the run
\* Job templates the form is exercised with: one model, of Gemini.
Templates ==
    { [prompt |-> "p", inputType |-> "TextToVideo", model |-> "veo-2.0-generate-001",
       aspectRatio |-> "16:9", outputs |-> 1, image |-> Undefined] }

\* Job templates the enqueue operation is exercised with directly: models of
\* two providers that can report exhausted quota.
DirectTemplates ==
    { [prompt |-> "p", inputType |-> "TextToVideo", model |-> "veo-2.0-generate-001",
       aspectRatio |-> "16:9", outputs |-> 1, image |-> Undefined],
      [prompt |-> "p", inputType |-> "TextToVideo", model |-> "deepai-video",
       aspectRatio |-> "9:16", outputs |-> 2, image |-> Undefined] }

\* Job templates of a provider whose API is not released: every dispatch of
\* such a job fails, with the same message.
UnsupportedTemplates ==
    { [prompt |-> "p", inputType |-> "TextToVideo", model |-> "sora-openai",
       aspectRatio |-> "16:9", outputs |-> 1, image |-> Undefined] }

UnsupportedKeyProviders == {"sora"}

\* Providers whose key the user saves.
KeyProviders == {"gemini"}

DirectKeyProviders == {"gemini", "deepai"}

\* Non-empty batches of at most MaxBatch templates.
Batches(templates) == UNION { [1..n -> templates] : n \in 1..MaxBatch }

\* Clock readings the run passes through: the multiples of the window.
ClockReadings ==
    { k * RATE_LIMIT_WINDOW_MS : k \in 0..(MaxTime \div RATE_LIMIT_WINDOW_MS) }

\* Clock readings on both sides of the edge of the window.
FineClockReadings ==
    {0, 1, RATE_LIMIT_WINDOW_MS - 1, RATE_LIMIT_WINDOW_MS, RATE_LIMIT_WINDOW_MS + 1}

RECURSIVE SumRetryCount(_, _)
SumRetryCount(js, k) ==
    IF k > Len(js) THEN 0 ELSE js[k].retryCount + SumRetryCount(js, k + 1)

\* The provider errors explored: an error that would start one more automatic
\* retry is drawn only while the retries built up stay below maxTotal.
ErrorExplored(js, id, outcome, maxTotal) ==
    \/ outcome.kind # "error"
    \/ js[id].retryCount >= MAX_RETRIES
    \/ SumRetryCount(js, 1) < maxTotal

\* The cancellations explored: at most MaxCancelled jobs are cancelled.
CancelExplored(js) ==
    Cardinality({k \in 1..Len(js) : js[k].error = CANCELLED_MSG}) < MaxCancelled

\* ------------------------------------------------------------ job store
\* Variant of handleAddJobs: the new jobs are put in front of the list.
handleAddJobsInFront(js, newJobs) ==
    [ k \in 1..Len(newJobs) |->
        [ id |-> Len(js) + k,
          prompt |-> newJobs[k].prompt,
          inputType |-> newJobs[k].inputType,
          model |-> newJobs[k].model,
          aspectRatio |-> newJobs[k].aspectRatio,
          outputs |-> newJobs[k].outputs,
          image |-> newJobs[k].image,
          status |-> "Pending",
          retryCount |-> 0,
          resultUrl |-> Undefined,
          resultUrls |-> Undefined,
          error |-> Undefined ] ] \o js

\* handleAddJobs: every template becomes a Pending job with retryCount 0 and
\* a fresh id (crypto.randomUUID(), here the position in the list, which is
\* unique because jobs are never removed), appended after the existing jobs.
handleAddJobs(js, newJobs) ==
    js \o [ k \in 1..Len(newJobs) |->
              [ id |-> Len(js) + k,
                prompt |-> newJobs[k].prompt,
                inputType |-> newJobs[k].inputType,
                model |-> newJobs[k].model,
                aspectRatio |-> newJobs[k].aspectRatio,
                outputs |-> newJobs[k].outputs,
                image |-> newJobs[k].image,
                status |-> "Pending",
                retryCount |-> 0,
                resultUrl |-> Undefined,
                resultUrls |-> Undefined,
                error |-> Undefined ] ]

\* The updaters f of setJobs(prev => prev.map(j => j.id === id ? f(j) : j)).
beginProcessing(j) == [j EXCEPT !.status = "Processing"]

\* Variant of complete: the error message of the last failure is kept.
completeKeepingError(j, result) ==
    IF j.inputType = "TextToImage"
    THEN [j EXCEPT !.status = "Completed", !.resultUrls = result]
    ELSE [j EXCEPT !.status = "Completed", !.resultUrl = result]

\* .then(result => ...): { ...j, status: Completed, ...result, error: undefined }
complete(j, result) ==
    IF j.inputType = "TextToImage"
    THEN [j EXCEPT !.status = "Completed", !.resultUrls = result, !.error = Undefined]
    ELSE [j EXCEPT !.status = "Completed", !.resultUrl = result, !.error = Undefined]

\* Variant of failTerminal: exhausted quota is treated like any other error.
failTerminalRetrying(j, message) ==
    IF j.retryCount < MAX_RETRIES
    THEN [j EXCEPT !.status = "Pending", !.retryCount = @ + 1, !.error = AUTO_RETRY_MSG]
    ELSE [j EXCEPT !.status = "Failed", !.error = message]

\* Variant of failTerminal: the failure is counted as a retry.
failTerminalCounting(j, message) ==
    [j EXCEPT !.status = "Failed", !.error = message, !.retryCount = @ + 1]

\* QuotaExceededError branch of .catch
failTerminal(j, message) == [j EXCEPT !.status = "Failed", !.error = message]

\* Variant of failTransient: the comparison is off by one.
failTransientOffByOne(j, message) ==
    IF j.retryCount <= MAX_RETRIES
    THEN [j EXCEPT !.status = "Pending", !.retryCount = @ + 1, !.error = AUTO_RETRY_MSG]
    ELSE [j EXCEPT !.status = "Failed",
                   !.error = IF message # "" THEN message ELSE UNKNOWN_ERROR_MSG]

\* Variant of failTransient: the job is never given up.
failTransientForever(j, message) ==
    [j EXCEPT !.status = "Pending",
              !.retryCount = IF @ < MAX_RETRIES THEN @ + 1 ELSE @,
              !.error = AUTO_RETRY_MSG]

\* Variant of failTransient: the job is given up one retry early.
failTransientGivingUpEarly(j, message) ==
    IF j.retryCount < MAX_RETRIES - 1
    THEN [j EXCEPT !.status = "Pending", !.retryCount = @ + 1, !.error = AUTO_RETRY_MSG]
    ELSE [j EXCEPT !.status = "Failed",
                   !.error = IF message # "" THEN message ELSE UNKNOWN_ERROR_MSG]

\* Any other error in .catch: automatic retry while retryCount < MAX_RETRIES.
failTransient(j, message) ==
    IF j.retryCount < MAX_RETRIES
    THEN [j EXCEPT !.status = "Pending", !.retryCount = @ + 1, !.error = AUTO_RETRY_MSG]
    ELSE [j EXCEPT !.status = "Failed",
                   !.error = IF message # "" THEN message ELSE UNKNOWN_ERROR_MSG]

\* Variant of manualRetry: the job is rebuilt with the form's default number
\* of outputs.
manualRetryResettingOutputs(j) ==
    [j EXCEPT !.status = "Pending", !.error = Undefined, !.retryCount = 0, !.outputs = 1]

\* Variant of manualRetry: retryCount is left as it is.
manualRetryKeepingCount(j) == [j EXCEPT !.status = "Pending", !.error = Undefined]

\* Variant of manualRetry: the error message is left in place.
manualRetryKeepingError(j) == [j EXCEPT !.status = "Pending", !.retryCount = 0]

\* handleRetryJob's updater
manualRetry(j) == [j EXCEPT !.status = "Pending", !.error = Undefined, !.retryCount = 0]

\* Variant of cancel: the status is set and the message is not.
cancelWithoutMessage(j) == [j EXCEPT !.status = "Failed"]

\* handleCancelJob's updater
cancel(j) == [j EXCEPT !.status = "Failed", !.error = CANCELLED_MSG]

\* ------------------------------------------------------------- scheduler
\* Variant of halted: the quota set is ignored.
haltedNever(quota) == FALSE

\* quotaExceededProviders.size > 0: the scheduler is halted.
halted(quota) == Cardinality(quota) > 0

\* RATE_LIMIT_COUNT - jobStartTimestamps.current.length, after the prune.
availableRateLimitSlots(ts, t) == RATE_LIMIT_COUNT - Len(PruneTimestamps(ts, t))

\* Variant of availableConcurrencySlots: the Processing jobs are not subtracted.
availableConcurrencySlotsNotCounting(js) == MAX_CONCURRENT_JOBS

\* Variant of availableConcurrencySlots: one slot too many.
availableConcurrencySlotsOffByOne(js) ==
    MAX_CONCURRENT_JOBS + 1 - Len(IdsWithStatus(js, "Processing", 1))

\* MAX_CONCURRENT_JOBS - jobs.filter(Processing).length
availableConcurrencySlots(js) ==
    MAX_CONCURRENT_JOBS - Len(IdsWithStatus(js, "Processing", 1))

\* Variant of slotsToProcess: the rate-limit slots are left out of the minimum.
slotsToProcessWithoutRate(js, ts, t) == availableConcurrencySlots(js)

slotsToProcess(js, ts, t) ==
    Min(availableConcurrencySlots(js), availableRateLimitSlots(ts, t))

\* The ids processQueue starts, in the order it starts them.
jobsToStart(js, keys, ts, t) ==
    IF slotsToProcess(js, ts, t) <= 0 THEN <<>>
    ELSE SelectJobsToStart(js, IdsWithStatus(js, "Pending", 1), keys,
                           slotsToProcess(js, ts, t), <<>>)

\* Variant of hasCancelled: the registry is not consulted.
hasCancelledNever(registry, id) == FALSE

\* cancelledJobIds.current.has(jobToStart.id)
hasCancelled(registry, id) == id \in registry

\* ------------------------------------------------------ provider dispatcher
Ok(result) == [kind |-> "ok", result |-> result, message |-> ""]
ProviderError(message) == [kind |-> "error", result |-> Undefined, message |-> message]
QuotaExceededError(message) == [kind |-> "quota", result |-> Undefined, message |-> message]

\* The ways the promise of processJob(job, apiKeys) can settle.  Gemini and
\* DeepAI may succeed, fail or report exhausted quota; DeepAI refuses
\* image-to-video; the other providers and DALL-E always throw.
processJob(job) ==
    LET provider == ProviderOf(job)
    IN  IF provider = Undefined THEN { ProviderError(PROVIDER_ERROR_MSG) }
        ELSE IF job.inputType = "TextToImage"
        THEN IF job.model = "imagen-4.0-generate-001"
             THEN { Ok(<<"data:image/jpeg">>), ProviderError(PROVIDER_ERROR_MSG),
                    QuotaExceededError(GEMINI_QUOTA_MSG) }
             ELSE { ProviderError(NOT_RELEASED_MSG) }
        ELSE IF provider = "gemini"
        THEN { Ok("blob:video"), ProviderError(PROVIDER_ERROR_MSG),
               QuotaExceededError(GEMINI_QUOTA_MSG) }
        ELSE IF provider = "deepai"
        THEN IF job.inputType = "ImageToVideo"
             THEN { ProviderError(PROVIDER_ERROR_MSG) }
             ELSE { Ok("blob:video"), ProviderError(PROVIDER_ERROR_MSG),
                    QuotaExceededError(DEEPAI_QUOTA_MSG) }
        ELSE { ProviderError(NOT_RELEASED_MSG) }

\* ------------------------------------- generateVideoWithGemini, pollOperation
\* One call of generateVideoWithGemini, followed through its awaits.  pollPc:
\*   "submit"    before ai.models.generateVideos settles
\*   "rejected"  generateVideos rejected
\*   "while"     at the test of while (!currentOperation.done)
\*   "timer"     awaiting the 10 s timer
\*   "query"     awaiting ai.operations.getVideosOperation
\*   "returned"  pollOperation returned currentOperation
\*   "thrown"    pollOperation rethrew the error of a query
\* pollOutcome is how the promise of generateVideoWithGemini settled.  An
\* operation is its name and its done flag; NoOperation stands for the
\* variables before generateVideos has answered.
NoOperation == [name |-> Undefined, done |-> FALSE]

PollNotStarted ==
    /\ operation = NoOperation
    /\ currentOperation = NoOperation
    /\ pollPc = "submit"
    /\ pollWaits = 0
    /\ pollQueries = 0
    /\ pollOutcome = Undefined

appVars == <<jobs, apiKeys, quotaExceededProviders, jobStartTimestamps,
             cancelledJobIds, inFlight, dispatchCount, now>>

\* let operation = await ai.models.generateVideos(requestPayload), then
\* pollOperation's currentOperation = operation; the call may reject.
generateVideos ==
    /\ pollPc = "submit"
    /\ \/ /\ \E done \in BOOLEAN :
                /\ operation' = [name |-> "operations/1", done |-> done]
                /\ currentOperation' = [name |-> "operations/1", done |-> done]
          /\ pollPc' = "while"
       \/ /\ pollPc' = "rejected"
          /\ UNCHANGED <<operation, currentOperation>>
    /\ UNCHANGED <<pollWaits, pollQueries, pollOutcome, appVars>>

\* Variant of pollLoopTest: after three queries the helper gives up waiting
\* and returns the operation as it is.
pollLoopTestGivingUp ==
    /\ pollPc = "while"
    /\ pollPc' = IF currentOperation.done \/ pollQueries >= 3 THEN "returned" ELSE "timer"
    /\ UNCHANGED <<operation, currentOperation, pollWaits, pollQueries, pollOutcome, appVars>>

\* while (!currentOperation.done): leave the loop and return when done, else
\* start the timer.
pollLoopTest ==
    /\ pollPc = "while"
    /\ pollPc' = IF currentOperation.done THEN "returned" ELSE "timer"
    /\ UNCHANGED <<operation, currentOperation, pollWaits, pollQueries, pollOutcome, appVars>>

\* await new Promise(resolve => setTimeout(resolve, 10000)): the timer fires.
\* The code puts no limit on the number of rounds; the run stops at MaxPolls.
pollTimer ==
    /\ pollPc = "timer"
    /\ pollWaits < MaxPolls
    /\ pollWaits' = pollWaits + 1
    /\ pollPc' = "query"
    /\ UNCHANGED <<operation, currentOperation, pollQueries, pollOutcome, appVars>>

\* currentOperation = await ai.operations.getVideosOperation(...): the query
\* answers with the operation, done or not, or rejects, and the catch
\* rethrows.
getVideosOperation ==
    /\ pollPc = "query"
    /\ pollQueries' = pollQueries + 1
    /\ \/ /\ \E done \in BOOLEAN : currentOperation' = [currentOperation EXCEPT !.done = done]
          /\ pollPc' = "while"
       \/ /\ pollPc' = "thrown"
          /\ UNCHANGED currentOperation
    /\ UNCHANGED <<operation, pollWaits, pollOutcome, appVars>>

\* After pollOperation returned: the download link may be missing and the
\* download may fail, both thrown inside the try; else the blob's URL is
\* returned.  The catch turns an error into QuotaExceededError or Error by
\* its status and message.
generateVideoWithGeminiThen ==
    /\ pollPc = "returned"
    /\ pollOutcome = Undefined
    /\ pollOutcome' \in {"ok", "error", "quota"}
    /\ UNCHANGED <<operation, currentOperation, pollPc, pollWaits, pollQueries, appVars>>

\* catch (error) of generateVideoWithGemini for an error of generateVideos or
\* of pollOperation: QuotaExceededError or Error.
generateVideoWithGeminiCatch ==
    /\ pollPc \in {"rejected", "thrown"}
    /\ pollOutcome = Undefined
    /\ pollOutcome' \in {"error", "quota"}
    /\ UNCHANGED <<operation, currentOperation, pollPc, pollWaits, pollQueries, appVars>>

\* ------------------------------------------------------------ initial state
\* jobs is empty; apiKeys is what localStorage holds, keys of some of providers.
InitWith(providers) ==
    /\ jobs = <<>>
    /\ apiKeys \in SUBSET providers
    /\ quotaExceededProviders = {}
    /\ jobStartTimestamps = <<>>
    /\ cancelledJobIds = {}
    /\ inFlight = <<>>
    /\ dispatchCount = <<>>
    /\ now = 0
    /\ PollNotStarted

Init == InitWith(KeyProviders)

InitDirect == InitWith(DirectKeyProviders)

\* The user has enqueued a batch of jobs and saved some keys, and from here
\* on leaves the scheduler alone.
InitLive ==
    /\ \E n \in 1..MaxLiveJobs : \E newJobs \in [1..n -> DirectTemplates] :
          /\ jobs = handleAddJobs(<<>>, newJobs)
          /\ inFlight = [k \in 1..n |-> 0]
          /\ dispatchCount = [k \in 1..n |-> 0]
    /\ apiKeys \in SUBSET DirectKeyProviders
    /\ quotaExceededProviders = {}
    /\ jobStartTimestamps = <<>>
    /\ cancelledJobIds = {}
    /\ now = 0
    /\ PollNotStarted

\* ------------------------------------------------------------------ actions
\* getAvailableModels: the form offers a model only when its provider has a key.
getAvailableModels(inputType, availableProviders) ==
    LET modelList == IF inputType = "TextToImage" THEN IMAGE_MODELS ELSE VIDEO_MODELS
    IN  { modelList[k].id : k \in { m \in 1..Len(modelList) :
                                      modelList[m].provider \in availableProviders } }

\* JobInputForm.handleSubmit passes the templates on only when the form is
\* enabled (some key is saved) and each names a model the form offers.
handleSubmit(newJobs, keys) ==
    /\ keys # {}
    /\ \A k \in 1..Len(newJobs) :
          newJobs[k].model \in getAvailableModels(newJobs[k].inputType, keys)

\* onAddJobs(newJobs): handleAddJobs on the job list.
AddJobs(newJobs, maxJobs) ==
    /\ Len(jobs) + Len(newJobs) <= maxJobs
    /\ jobs' = handleAddJobs(jobs, newJobs)
    /\ inFlight' = inFlight \o [k \in 1..Len(newJobs) |-> 0]
    /\ dispatchCount' = dispatchCount \o [k \in 1..Len(newJobs) |-> 0]
    /\ UNCHANGED <<apiKeys, quotaExceededProviders, jobStartTimestamps,
                   cancelledJobIds, now, pollVars>>

\* The user submits the form.
SubmitJobs ==
    \E newJobs \in Batches(Templates) :
        handleSubmit(newJobs, apiKeys) /\ AddJobs(newJobs, MaxJobs)

SubmitLoadJobs ==
    \E newJobs \in Batches(Templates) :
        handleSubmit(newJobs, apiKeys) /\ AddJobs(newJobs, MaxLoadJobs)

\* The enqueue operation called with any batch of templates, whatever keys
\* are saved.
EnqueueJobs ==
    \E newJobs \in Batches(DirectTemplates) : AddJobs(newJobs, MaxJobs)

\* Variant of handleSaveApiKey: a saved key clears the whole quota set.
handleSaveApiKeyClearingAll(provider) ==
    /\ apiKeys' = apiKeys \cup {provider}
    /\ quotaExceededProviders' = {}
    /\ UNCHANGED <<jobs, jobStartTimestamps, cancelledJobIds, inFlight,
                   dispatchCount, now, pollVars>>

\* handleSaveApiKey with a non-empty key (ApiKeysManager.handleSave trims the
\* input and saves only a non-empty key).
handleSaveApiKey(provider) ==
    /\ apiKeys' = apiKeys \cup {provider}
    /\ quotaExceededProviders' = quotaExceededProviders \ {provider}
    /\ UNCHANGED <<jobs, jobStartTimestamps, cancelledJobIds, inFlight,
                   dispatchCount, now, pollVars>>

SaveApiKey == \E provider \in KeyProviders : handleSaveApiKey(provider)

SaveAnyApiKey == \E provider \in DirectKeyProviders : handleSaveApiKey(provider)

\* Variant of processQueue: one timestamp is recorded for the whole tick,
\* however many jobs it starts.
processQueueOneTimestamp ==
    LET started == jobsToStart(jobs, apiKeys, jobStartTimestamps, now)
    IN  /\ ~halted(quotaExceededProviders)
        /\ jobs' = [ k \in JobIds |->
                       IF k \in Range(started) THEN beginProcessing(jobs[k]) ELSE jobs[k] ]
        /\ jobStartTimestamps' =
               PruneTimestamps(jobStartTimestamps, now)
                 \o (IF started = <<>> THEN <<>> ELSE <<now>>)
        /\ inFlight' = [ k \in JobIds |->
                           IF k \in Range(started) THEN inFlight[k] + 1 ELSE inFlight[k] ]
        /\ dispatchCount' = [ k \in JobIds |->
                                IF k \in Range(started) THEN dispatchCount[k] + 1
                                ELSE dispatchCount[k] ]
        /\ UNCHANGED <<apiKeys, quotaExceededProviders, cancelledJobIds, now, pollVars>>

\* One run of processQueue: nothing while halted; else prune, compute the
\* slots, select, and for every selected job mark it Processing, record a
\* timestamp and start processJob.  The promises settle in later steps.
processQueue ==
    LET started == jobsToStart(jobs, apiKeys, jobStartTimestamps, now)
    IN  /\ ~halted(quotaExceededProviders)
        /\ jobs' = [ k \in JobIds |->
                       IF k \in Range(started) THEN beginProcessing(jobs[k]) ELSE jobs[k] ]
        /\ jobStartTimestamps' =
               PruneTimestamps(jobStartTimestamps, now) \o [k \in 1..Len(started) |-> now]
        /\ inFlight' = [ k \in JobIds |->
                           IF k \in Range(started) THEN inFlight[k] + 1 ELSE inFlight[k] ]
        /\ dispatchCount' = [ k \in JobIds |->
                                IF k \in Range(started) THEN dispatchCount[k] + 1
                                ELSE dispatchCount[k] ]
        /\ UNCHANGED <<apiKeys, quotaExceededProviders, cancelledJobIds, now, pollVars>>

\* The interval of the useEffect exists while some job is Pending and the
\* scheduler is not halted; each firing runs processQueue.
Tick ==
    /\ \E k \in JobIds : jobs[k].status = "Pending"
    /\ ~halted(quotaExceededProviders)
    /\ processQueue

\* Variant of Settle: the .catch callback records exhausted quota before it
\* looks at the cancellation registry.
SettleQuotaBeforeRegistry(id, outcome) ==
    /\ inFlight' = [inFlight EXCEPT ![id] = @ - 1]
    /\ quotaExceededProviders' =
           IF outcome.kind = "quota" /\ ProviderOf(jobs[id]) # Undefined
           THEN quotaExceededProviders \cup {ProviderOf(jobs[id])}
           ELSE quotaExceededProviders
    /\ IF hasCancelled(cancelledJobIds, id)
       THEN /\ cancelledJobIds' = cancelledJobIds \ {id}
            /\ UNCHANGED jobs
       ELSE /\ UNCHANGED cancelledJobIds
            /\ IF outcome.kind = "ok"
               THEN jobs' = [jobs EXCEPT ![id] = complete(@, outcome.result)]
               ELSE IF outcome.kind = "quota" /\ ProviderOf(jobs[id]) # Undefined
               THEN jobs' = [jobs EXCEPT ![id] = failTerminal(@, outcome.message)]
               ELSE jobs' = [jobs EXCEPT ![id] = failTransient(@, outcome.message)]
    /\ UNCHANGED <<apiKeys, jobStartTimestamps, dispatchCount, now, pollVars>>

\* Variant of Settle: while the scheduler is halted a settled promise is
\* discarded and its job stays as it is.
SettleDiscardedWhileHalted(id, outcome) ==
    /\ inFlight' = [inFlight EXCEPT ![id] = @ - 1]
    /\ IF hasCancelled(cancelledJobIds, id)
       THEN /\ cancelledJobIds' = cancelledJobIds \ {id}
            /\ UNCHANGED <<jobs, quotaExceededProviders>>
       ELSE /\ UNCHANGED cancelledJobIds
            /\ IF halted(quotaExceededProviders)
               THEN UNCHANGED <<jobs, quotaExceededProviders>>
               ELSE IF outcome.kind = "ok"
               THEN /\ jobs' = [jobs EXCEPT ![id] = complete(@, outcome.result)]
                    /\ UNCHANGED quotaExceededProviders
               ELSE IF outcome.kind = "quota" /\ ProviderOf(jobs[id]) # Undefined
               THEN /\ quotaExceededProviders' =
                           quotaExceededProviders \cup {ProviderOf(jobs[id])}
                    /\ jobs' = [jobs EXCEPT ![id] = failTerminal(@, outcome.message)]
               ELSE /\ jobs' = [jobs EXCEPT ![id] = failTransient(@, outcome.message)]
                    /\ UNCHANGED quotaExceededProviders
    /\ UNCHANGED <<apiKeys, jobStartTimestamps, dispatchCount, now, pollVars>>

\* The promise of one dispatch of job id settles with outcome: the .then /
\* .catch callbacks of processQueue.
Settle(id, outcome) ==
    /\ inFlight' = [inFlight EXCEPT ![id] = @ - 1]
    /\ IF hasCancelled(cancelledJobIds, id)
       THEN /\ cancelledJobIds' = cancelledJobIds \ {id}
            /\ UNCHANGED <<jobs, quotaExceededProviders>>
       ELSE /\ UNCHANGED cancelledJobIds
            /\ IF outcome.kind = "ok"
               THEN /\ jobs' = [jobs EXCEPT ![id] = complete(@, outcome.result)]
                    /\ UNCHANGED quotaExceededProviders
               ELSE IF outcome.kind = "quota" /\ ProviderOf(jobs[id]) # Undefined
               THEN /\ quotaExceededProviders' =
                           quotaExceededProviders \cup {ProviderOf(jobs[id])}
                    /\ jobs' = [jobs EXCEPT ![id] = failTerminal(@, outcome.message)]
               ELSE /\ jobs' = [jobs EXCEPT ![id] = failTransient(@, outcome.message)]
                    /\ UNCHANGED quotaExceededProviders
    /\ UNCHANGED <<apiKeys, jobStartTimestamps, dispatchCount, now, pollVars>>

ResolveWithin(maxTotal) ==
    \E id \in JobIds :
        /\ inFlight[id] > 0
        /\ \E outcome \in processJob(jobs[id]) :
              ErrorExplored(jobs, id, outcome, maxTotal) /\ Settle(id, outcome)

Resolve == ResolveWithin(MaxTotalRetries)

ResolveLoad == ResolveWithin(MaxLoadRetries)

\* Variant of CancelButtonShown: the button is shown on every job.
CancelButtonShownOnAnyJob(j) == TRUE

\* Variant of CancelButtonShown: the button is shown unless the job is Failed.
CancelButtonShownUnlessFailed(j) == j.status # "Failed"

\* JobRow shows the cancel button on a Pending or Processing job.
CancelButtonShown(j) == j.status = "Pending" \/ j.status = "Processing"

\* Variant of RetryButtonShown: the button is shown on every Failed job.
RetryButtonShownOnAnyFailed(j) == j.status = "Failed"

\* JobRow shows the retry button on a Failed job whose error is not the
\* cancellation message.
RetryButtonShown(j) == j.status = "Failed" /\ j.error # CANCELLED_MSG

\* Variant of handleCancelJob: the id is not recorded in the registry.
handleCancelJobWithoutMark(jobId) ==
    /\ jobs' = [jobs EXCEPT ![jobId] = cancel(@)]
    /\ UNCHANGED <<apiKeys, quotaExceededProviders, jobStartTimestamps,
                   cancelledJobIds, inFlight, dispatchCount, now, pollVars>>

handleCancelJob(jobId) ==
    /\ cancelledJobIds' = cancelledJobIds \cup {jobId}
    /\ jobs' = [jobs EXCEPT ![jobId] = cancel(@)]
    /\ UNCHANGED <<apiKeys, quotaExceededProviders, jobStartTimestamps, inFlight,
                   dispatchCount, now, pollVars>>

CancelJob ==
    \E jobId \in JobIds :
        /\ CancelButtonShown(jobs[jobId])
        /\ CancelExplored(jobs)
        /\ handleCancelJob(jobId)

handleRetryJob(jobId) ==
    /\ jobs' = [jobs EXCEPT ![jobId] = manualRetry(@)]
    /\ dispatchCount' = [dispatchCount EXCEPT ![jobId] = 0]
    /\ UNCHANGED <<apiKeys, quotaExceededProviders, jobStartTimestamps,
                   cancelledJobIds, inFlight, now, pollVars>>

RetryJob ==
    \E jobId \in JobIds : RetryButtonShown(jobs[jobId]) /\ handleRetryJob(jobId)

\* Time passes: Date.now() moves on to a later reading.
AdvanceTime ==
    /\ \E t \in ClockReadings : t > now /\ now' = t
    /\ UNCHANGED <<jobs, apiKeys, quotaExceededProviders, jobStartTimestamps,
                   cancelledJobIds, inFlight, dispatchCount, pollVars>>

\* ----------------------------------------------------------- specifications
\* The application: jobs enter through the form.
Next ==
    \/ SubmitJobs
    \/ SaveApiKey
    \/ Tick
    \/ Resolve
    \/ CancelJob
    \/ RetryJob
    \/ AdvanceTime

Spec == Init /\ [][Next]_vars

\* The application under load: more jobs than concurrency slots.
NextLoad ==
    \/ SubmitLoadJobs
    \/ SaveApiKey
    \/ Tick
    \/ ResolveLoad
    \/ CancelJob
    \/ RetryJob
    \/ AdvanceTime

SpecLoad == Init /\ [][NextLoad]_vars

\* The scheduler driven through its enqueue operation directly, with models
\* of two providers, so that jobs of a provider without a saved key enter
\* the list.  Every behaviour of the form with these models is one of these.
NextDirect ==
    \/ EnqueueJobs
    \/ SaveAnyApiKey
    \/ Tick
    \/ Resolve
    \/ CancelJob
    \/ RetryJob
    \/ AdvanceTime

SpecDirect == InitDirect /\ [][NextDirect]_vars

\* Every dispatch settles, with any of the outcomes its provider has.
ResolveLive == ResolveWithin(MaxLiveJobs * MAX_RETRIES + 1)

\* Time never stops: the clock moves on to a later reading, and past the last
\* reading a whole window goes by, after which every recorded timestamp is
\* older than the window (the code only ever asks whether one is).
AdvanceTimeLive ==
    \/ AdvanceTime
    \/ /\ \A t \in ClockReadings : t <= now
       /\ jobStartTimestamps' =
              [k \in 1..Len(jobStartTimestamps) |-> now - RATE_LIMIT_WINDOW_MS]
       /\ UNCHANGED <<jobs, apiKeys, quotaExceededProviders, cancelledJobIds,
                      inFlight, dispatchCount, now, pollVars>>

\* The scheduler left alone: the interval keeps firing while it exists, every
\* promise of processJob settles, time passes; the user does nothing.
NextLive ==
    \/ Tick
    \/ ResolveLive
    \/ AdvanceTimeLive

SpecLive ==
    /\ InitLive
    /\ [][NextLive]_vars
    /\ WF_vars(Tick)
    /\ WF_vars(ResolveLive)
    /\ WF_vars(AdvanceTimeLive)

\* Time passes, read at the edge of the window to the millisecond.
AdvanceTimeFine ==
    /\ \E t \in FineClockReadings : t > now /\ now' = t
    /\ UNCHANGED <<jobs, apiKeys, quotaExceededProviders, jobStartTimestamps,
                   cancelledJobIds, inFlight, dispatchCount, pollVars>>

\* The scheduler and its rate limiter around the edge of the window.
NextFine ==
    \/ SubmitJobs
    \/ SaveApiKey
    \/ Tick
    \/ Resolve
    \/ AdvanceTimeFine

SpecFine == Init /\ [][NextFine]_vars

\* The application with a provider whose every dispatch fails.
InitUnsupported == InitWith(UnsupportedKeyProviders)

SubmitUnsupportedJobs ==
    \E newJobs \in Batches(UnsupportedTemplates) :
        handleSubmit(newJobs, apiKeys) /\ AddJobs(newJobs, MaxJobs)

SaveUnsupportedApiKey ==
    \E provider \in UnsupportedKeyProviders : handleSaveApiKey(provider)

\* Every failure of every job is explored.
ResolveUnsupported == ResolveWithin(MaxJobs * MAX_RETRIES + 1)

NextUnsupported ==
    \/ SubmitUnsupportedJobs
    \/ SaveUnsupportedApiKey
    \/ Tick
    \/ ResolveUnsupported
    \/ CancelJob
    \/ RetryJob
    \/ AdvanceTime

SpecUnsupported == InitUnsupported /\ [][NextUnsupported]_vars
\* One dispatch of a Gemini video job, from the submit call to the settling
\* of its promise.
InitPoll == InitWith({})

NextPoll ==
    \/ generateVideos
    \/ pollLoopTest
    \/ pollTimer
    \/ getVideosOperation
    \/ generateVideoWithGeminiThen
    \/ generateVideoWithGeminiCatch

SpecPoll == InitPoll /\ [][NextPoll]_vars

\* ------------------------------------------------------------ derived counts
ProcessingCount == Cardinality({k \in JobIds : jobs[k].status = "Processing"})

TypeOK ==
    /\ \A k \in JobIds : jobs[k].id = k /\ jobs[k].status \in JobStatus
    /\ Len(inFlight) = Len(jobs)
    /\ Len(dispatchCount) = Len(jobs)
    /\ apiKeys \subseteq Provider
    /\ quotaExceededProviders \subseteq Provider
    /\ cancelledJobIds \subseteq JobIds

\* ---------------------------------------------------------------- properties
Max0(a) == IF a < 0 THEN 0 ELSE a

\* Timestamps of ts that lie within the trailing window at reading t.
InWindowCount(ts, t) ==
    Cardinality({k \in 1..Len(ts) : t - ts[k] < RATE_LIMIT_WINDOW_MS})

\* Slots a tick run in the current state has: the smaller of the free
\* concurrency slots and the free rate slots.
FreeSlots ==
    Min(MAX_CONCURRENT_JOBS - ProcessingCount,
        RATE_LIMIT_COUNT - InWindowCount(jobStartTimestamps, now))

\* Pending jobs whose provider has a saved key.
EligiblePending == {k \in JobIds : jobs[k].status = "Pending" /\ HasCredential(jobs[k], apiKeys)}

\* Jobs the step moves from Pending to Processing.
Started == {k \in JobIds : jobs[k].status = "Pending" /\ jobs'[k].status = "Processing"}

\* C1: in every reachable state the number of jobs with status Processing is
\* at most MAX_CONCURRENT_JOBS.
C1_ProcessingWithinLimit == ProcessingCount <= MAX_CONCURRENT_JOBS

\* The concurrency limit is what holds a job back: all slots are taken, the
\* rate limiter is empty after a later tick's prune, a job with a key waits.
C1_Witness ==
    /\ ProcessingCount = MAX_CONCURRENT_JOBS
    /\ EligiblePending # {}
    /\ quotaExceededProviders = {}
    /\ jobStartTimestamps = <<>>
    /\ now > 0

\* C2: at every instant at most RATE_LIMIT_COUNT recorded timestamps lie in
\* the trailing window, and no step records more timestamps than the rate
\* slots left after pruning (dispatches of automatic retries included).
C2_RateWithinLimit ==
    /\ [](InWindowCount(jobStartTimestamps, now) <= RATE_LIMIT_COUNT)
    /\ [][ Len(jobStartTimestamps') - InWindowCount(jobStartTimestamps, now)
             <= Max0(RATE_LIMIT_COUNT - InWindowCount(jobStartTimestamps, now)) ]_vars

\* The rate limit is what holds a job back: the window is full, partly with
\* dispatches of automatic retries, a slot of concurrency is free and a job
\* that was retried automatically waits with a key.
C2_Witness ==
    /\ InWindowCount(jobStartTimestamps, now) = RATE_LIMIT_COUNT
    /\ ProcessingCount < MAX_CONCURRENT_JOBS
    /\ quotaExceededProviders = {}
    /\ \E k \in EligiblePending : jobs[k].retryCount > 0

\* C3: when the dispatch of a job whose cancellation is recorded settles,
\* the job list does not change: the job is and stays Failed with the
\* cancellation message and without a result.
C3_CancelledResolutionIsNoOp ==
    [][ \A id \in JobIds :
          ( /\ id \in cancelledJobIds \/ jobs[id].error = CANCELLED_MSG
            /\ inFlight'[id] < inFlight[id] )
          => /\ jobs' = jobs
             /\ jobs[id].status = "Failed"
             /\ jobs[id].error = CANCELLED_MSG
             /\ jobs[id].resultUrl = Undefined
             /\ jobs[id].resultUrls = Undefined ]_vars

\* A job cancelled while Processing whose dispatch has settled since (the
\* settling consumed the mark).
C3_Witness ==
    \E id \in JobIds :
        /\ jobs[id].error = CANCELLED_MSG
        /\ jobs[id].status = "Failed"
        /\ inFlight[id] = 0
        /\ id \notin cancelledJobIds

\* C4: no job has more than one unsettled dispatch.
C4_NoConcurrentDispatch == \A id \in JobIds : inFlight[id] <= 1

\* A job dispatched again after an earlier dispatch of it failed.
C4_Witness ==
    \E id \in JobIds :
        /\ inFlight[id] = 1
        /\ jobs[id].status = "Processing"
        /\ jobs[id].retryCount >= 1

\* C5: while quotaExceededProviders is non-empty no job goes from Pending to
\* Processing and no dispatch starts.
C5_QuotaHaltsDispatch ==
    [][ \A id \in JobIds :
          ( \/ jobs[id].status = "Pending" /\ jobs'[id].status = "Processing"
            \/ inFlight'[id] > inFlight[id] )
          => quotaExceededProviders = {} ]_vars

\* One provider is out of quota while a job of another provider, which has a
\* key, waits with free slots.
C5_Witness ==
    /\ quotaExceededProviders # {}
    /\ FreeSlots > 0
    /\ \E k \in EligiblePending : ProviderOf(jobs[k]) \notin quotaExceededProviders

\* C6: every job has 0 <= retryCount <= MAX_RETRIES.
C6_RetryCountBounded ==
    \A id \in JobIds : jobs[id].retryCount >= 0 /\ jobs[id].retryCount <= MAX_RETRIES

\* A job at the bound whose dispatch is still to settle.
C6_Witness ==
    \E id \in JobIds :
        /\ jobs[id].retryCount = MAX_RETRIES
        /\ jobs[id].status = "Processing"
        /\ inFlight[id] = 1

\* C7: when a dispatch of a job that is not cancelled settles with an error
\* other than exhausted quota, the job goes to Pending with retryCount + 1
\* and the automatic-retry message if retryCount < MAX_RETRIES, and otherwise
\* to Failed with the error's message and retryCount unchanged.
C7_FailTransient ==
    [][ \A id \in JobIds : \A outcome \in processJob(jobs[id]) :
          ( /\ outcome.kind = "error"
            /\ inFlight[id] > 0
            /\ id \notin cancelledJobIds
            /\ Settle(id, outcome) )
          => IF jobs[id].retryCount < MAX_RETRIES
             THEN /\ jobs'[id].status = "Pending"
                  /\ jobs'[id].retryCount = jobs[id].retryCount + 1
                  /\ jobs'[id].error = AUTO_RETRY_MSG
             ELSE /\ jobs'[id].status = "Failed"
                  /\ jobs'[id].retryCount = jobs[id].retryCount
                  /\ jobs'[id].error = outcome.message ]_vars

\* A job given up after its (MAX_RETRIES + 1)-th failure.
C7_Witness ==
    \E id \in JobIds :
        /\ jobs[id].status = "Failed"
        /\ jobs[id].retryCount = MAX_RETRIES
        /\ jobs[id].error = PROVIDER_ERROR_MSG

\* C8: a step that records a cancellation, or gives a job the cancellation
\* message, acts on a Pending or Processing job, leaves it Failed with that
\* message and in the registry, and leaves the dispatches in flight alone.
C8_CancelImmediate ==
    [][ \A id \in JobIds :
          ( \/ id \in cancelledJobIds' /\ id \notin cancelledJobIds
            \/ jobs'[id].error = CANCELLED_MSG /\ jobs[id].error # CANCELLED_MSG )
          => /\ jobs[id].status \in {"Pending", "Processing"}
             /\ jobs'[id].status = "Failed"
             /\ jobs'[id].error = CANCELLED_MSG
             /\ id \in cancelledJobIds'
             /\ inFlight' = inFlight ]_vars

\* A job cancelled while Processing: Failed at once, its dispatch still running.
C8_Witness ==
    \E id \in JobIds :
        /\ jobs[id].status = "Failed"
        /\ jobs[id].error = CANCELLED_MSG
        /\ id \in cancelledJobIds
        /\ inFlight[id] = 1

\* C9: a step that takes a job from Failed to Pending resets retryCount to 0
\* and clears error, and a tick run next selects the job if the scheduler is
\* not halted, the job's provider has a key and a slot is left after the
\* eligible Pending jobs ahead of it.
C9_ManualRetry ==
    [][ \A id \in JobIds :
          (jobs[id].status = "Failed" /\ jobs'[id].status = "Pending")
          => /\ jobs'[id].retryCount = 0
             /\ jobs'[id].error = Undefined
             /\ ( ( /\ quotaExceededProviders' = {}
                    /\ HasCredential(jobs'[id], apiKeys')
                    /\ Cardinality({k \in 1..(id - 1) :
                           /\ jobs'[k].status = "Pending"
                           /\ HasCredential(jobs'[k], apiKeys')})
                         < Min(MAX_CONCURRENT_JOBS
                                 - Cardinality({k \in JobIds : jobs'[k].status = "Processing"}),
                               RATE_LIMIT_COUNT
                                 - InWindowCount(jobStartTimestamps', now')) )
                  => id \in Range(jobsToStart(jobs', apiKeys', jobStartTimestamps', now')) ) ]_vars

\* The only job of the list is Processing with retryCount 0 although it was
\* dispatched before: it was retried by hand and selected again.
C9_Witness ==
    /\ Len(jobs) = 1
    /\ jobs[1].status = "Processing"
    /\ jobs[1].retryCount = 0
    /\ Len(jobStartTimestamps) >= 2

\* C10: a Pending job whose provider has no key is not among the jobs a tick
\* run in any reachable state selects, and the tick selects as many jobs as
\* the smaller of its slots and the number of Pending jobs with a key, so a
\* job without a key uses up no slot; no step starts such a job, and unless
\* the user cancels it the job does not change.
C10_NoCredentialNotSelected ==
    /\ [] LET selected == jobsToStart(jobs, apiKeys, jobStartTimestamps, now)
          IN  /\ Range(selected) \subseteq EligiblePending
              /\ Len(selected) = Min(Max0(FreeSlots), Cardinality(EligiblePending))
    /\ [][ /\ \A id \in JobIds :
                (jobs[id].status = "Pending" /\ ~HasCredential(jobs[id], apiKeys))
                => /\ jobs'[id].status # "Processing"
                   /\ inFlight'[id] = inFlight[id]
                   /\ \/ jobs'[id] = jobs[id]
                      \/ jobs'[id] = [jobs[id] EXCEPT !.status = "Failed",
                                                      !.error = CANCELLED_MSG]
           /\ Tick => Started = Range(jobsToStart(jobs, apiKeys, jobStartTimestamps, now)) ]_vars

\* The last rate slot went to a job with a key that stands behind a Pending
\* job without one.
C10_Witness ==
    \E i \in JobIds : \E k \in JobIds :
        /\ i < k
        /\ jobs[i].status = "Pending"
        /\ ~HasCredential(jobs[i], apiKeys)
        /\ jobs[k].status = "Processing"
        /\ InWindowCount(jobStartTimestamps, now) = RATE_LIMIT_COUNT

\* C11: the jobs a step starts are the first of the Pending jobs with a key,
\* in list (submission) order: no job is started while a Pending job with a
\* key stands before it and is not started; and a step starts at most
\* min(MAX_CONCURRENT_JOBS - Processing, rate slots) jobs.
C11_FifoWithinSlots ==
    [][ /\ \A k \in Started : \A i \in 1..(k - 1) :
              i \in EligiblePending => i \in Started
        /\ Cardinality(Started) <= Max0(FreeSlots) ]_vars

\* The one slot the rate limiter had left went to the older of two waiting
\* jobs: the older is Processing, the newer, which has waited since its own
\* earlier dispatch failed, is still Pending with a key.
C11_Witness ==
    \E i \in JobIds : \E k \in JobIds :
        /\ i < k
        /\ jobs[i].status = "Processing"
        /\ jobs[i].retryCount > 0
        /\ k \in EligiblePending
        /\ jobs[k].retryCount > 0
        /\ InWindowCount(jobStartTimestamps, now) = RATE_LIMIT_COUNT
        /\ quotaExceededProviders = {}

\* The first n Pending jobs with a key, in list order.
FirstEligible(n) ==
    {k \in EligiblePending : Cardinality({i \in EligiblePending : i < k}) < n}

\* C12: a tick run while no provider is out of quota starts exactly
\* min(slots, number of Pending jobs with a key) jobs, the first ones in list
\* order: in every reachable state that is what processQueue selects, and
\* every firing of the tick starts exactly those jobs.  With the limit of
\* MAX_CONCURRENT_JOBS and one job more than that waiting, the first tick
\* starts all but the last and a later tick starts the last one.
C12_TickStartsExactlyMin ==
    /\ [] ( quotaExceededProviders = {}
            => Range(jobsToStart(jobs, apiKeys, jobStartTimestamps, now))
                 = FirstEligible(Min(Max0(FreeSlots), Cardinality(EligiblePending))) )
    /\ [][ Tick => /\ Started = FirstEligible(Min(Max0(FreeSlots),
                                                  Cardinality(EligiblePending)))
                   /\ Cardinality(Started)
                        = Min(Max0(FreeSlots), Cardinality(EligiblePending)) ]_vars

\* One job more than MAX_CONCURRENT_JOBS: the first tick filled the slots and
\* the rate window, one of those jobs completed, and a tick after the window
\* had passed started the last job, whose timestamp is the only one left.
C12_Witness ==
    /\ Len(jobs) = MAX_CONCURRENT_JOBS + 1
    /\ jobs[Len(jobs)].status = "Processing"
    /\ Cardinality({k \in 1..MAX_CONCURRENT_JOBS : jobs[k].status = "Completed"}) = 1
    /\ ProcessingCount = MAX_CONCURRENT_JOBS
    /\ jobStartTimestamps = <<now>>
    /\ now > 0
    /\ \A k \in JobIds : jobs[k].retryCount = 0

\* The result field processJob fills for a job: resultUrls for an image job,
\* resultUrl for a video job.
ResultOf(j) == IF j.inputType = "TextToImage" THEN j.resultUrls ELSE j.resultUrl

\* C13: when a dispatch of a job that is not cancelled settles successfully,
\* the job becomes Completed with the result of the dispatch and no error,
\* its retryCount stays what it was, and nothing else of the job changes.
C13_SuccessCompletes ==
    [][ \A id \in JobIds : \A outcome \in processJob(jobs[id]) :
          ( /\ outcome.kind = "ok"
            /\ inFlight[id] > 0
            /\ id \notin cancelledJobIds
            /\ Settle(id, outcome) )
          => /\ jobs'[id].status = "Completed"
             /\ ResultOf(jobs'[id]) = outcome.result
             /\ jobs'[id].error = Undefined
             /\ jobs'[id].retryCount = jobs[id].retryCount
             /\ jobs'[id].id = jobs[id].id
             /\ jobs'[id].prompt = jobs[id].prompt
             /\ jobs'[id].model = jobs[id].model
             /\ jobs'[id].inputType = jobs[id].inputType ]_vars

\* A job that failed twice and succeeded on its third dispatch.
C13_Witness ==
    \E id \in JobIds :
        /\ jobs[id].status = "Completed"
        /\ jobs[id].retryCount = 2
        /\ jobs[id].error = Undefined
        /\ ResultOf(jobs[id]) # Undefined
        /\ inFlight[id] = 0

\* C14: when a dispatch of a job that is not cancelled settles with exhausted
\* quota, the job's provider is added to quotaExceededProviders and the job
\* becomes Failed with the message of the error, whatever its retryCount,
\* which stays what it was; the job does not go back to Pending.
C14_QuotaFailsTerminally ==
    [][ \A id \in JobIds : \A outcome \in processJob(jobs[id]) :
          ( /\ outcome.kind = "quota"
            /\ inFlight[id] > 0
            /\ id \notin cancelledJobIds
            /\ Settle(id, outcome) )
          => /\ quotaExceededProviders'
                  = quotaExceededProviders \cup {ProviderOf(jobs[id])}
             /\ ProviderOf(jobs[id]) \in Provider
             /\ jobs'[id].status = "Failed"
             /\ jobs'[id].error = outcome.message
             /\ outcome.message \in {GEMINI_QUOTA_MSG, DEEPAI_QUOTA_MSG}
             /\ jobs'[id].retryCount = jobs[id].retryCount
             /\ \A k \in JobIds \ {id} : jobs'[k] = jobs[k] ]_vars

\* A job that was retried automatically after an ordinary error and then ran
\* out of quota: Failed with the quota message, retries left, the scheduler
\* halted by its provider.
C14_Witness ==
    \E id \in JobIds :
        /\ jobs[id].status = "Failed"
        /\ jobs[id].error = GEMINI_QUOTA_MSG
        /\ jobs[id].retryCount > 0
        /\ jobs[id].retryCount < MAX_RETRIES
        /\ ProviderOf(jobs[id]) \in quotaExceededProviders

\* The status changes a job may go through.
AllowedTransitions ==
    { <<"Pending", "Processing">>, <<"Processing", "Completed">>,
      <<"Processing", "Pending">>, <<"Processing", "Failed">>,
      <<"Pending", "Failed">>, <<"Failed", "Pending">> }

\* C15: every change of a job's status is Pending to Processing, Processing
\* to Completed, Processing to Pending, Processing to Failed, Pending to
\* Failed or Failed to Pending; a Completed job keeps its status, a Pending
\* job becomes Failed only by the user's cancel, and a Failed job changes
\* status only by the user's retry of that job.
C15_TransitionGraph ==
    [][ \A id \in JobIds :
          jobs'[id].status # jobs[id].status
          => /\ <<jobs[id].status, jobs'[id].status>> \in AllowedTransitions
             /\ jobs[id].status = "Pending" /\ jobs'[id].status = "Failed"
                  => handleCancelJob(id)
             /\ jobs[id].status = "Failed" => handleRetryJob(id) ]_vars

\* One job was cancelled while it waited; another went out of quota on its
\* first dispatch, was retried by the user and completed on its second.
C15_Witness ==
    \E i \in JobIds : \E k \in JobIds :
        /\ jobs[i].status = "Failed"
        /\ jobs[i].error = CANCELLED_MSG
        /\ jobs[i].retryCount = 0
        /\ inFlight[i] = 0
        /\ i \in cancelledJobIds
        /\ jobs[k].status = "Completed"
        /\ jobs[k].retryCount = 0
        /\ now = 0
        /\ Len(jobStartTimestamps) >= 2

\* C16: every job with status Failed has an error message, and the message
\* is not the empty string.
C16_FailedHasMessage ==
    \A id \in JobIds :
        jobs[id].status = "Failed"
        => jobs[id].error # Undefined /\ jobs[id].error # ""

\* Failed jobs of two kinds side by side: one cancelled by the user, one given
\* up after its retries ran out.
C16_Witness ==
    \E i \in JobIds : \E k \in JobIds :
        /\ jobs[i].status = "Failed"
        /\ jobs[i].error = CANCELLED_MSG
        /\ jobs[k].status = "Failed"
        /\ jobs[k].retryCount = MAX_RETRIES
        /\ jobs[k].error \notin {CANCELLED_MSG, GEMINI_QUOTA_MSG, AUTO_RETRY_MSG, Undefined}

\* C17: a step removes at most one provider from quotaExceededProviders, and
\* only by saving that provider's key, which changes nothing but the keys
\* and the quota set; a step that saves a new key removes that provider and
\* no other; while a provider is left in the set the scheduler stays halted.
C17_SaveKeyClearsOnlyItsProvider ==
    [][ /\ \A p \in quotaExceededProviders \ quotaExceededProviders' :
              /\ quotaExceededProviders' = quotaExceededProviders \ {p}
              /\ apiKeys' = apiKeys \cup {p}
              /\ UNCHANGED <<jobs, jobStartTimestamps, cancelledJobIds, inFlight, now>>
              /\ quotaExceededProviders' # {} => halted(quotaExceededProviders')
        /\ \A p \in apiKeys' \ apiKeys :
              quotaExceededProviders' = quotaExceededProviders \ {p} ]_vars

\* Jobs of two providers ran out of quota; a key was saved for Gemini alone
\* and the scheduler is still halted by DeepAI.
C17_Witness ==
    /\ quotaExceededProviders = {"deepai"}
    /\ halted(quotaExceededProviders)
    /\ \E i \in JobIds : /\ jobs[i].status = "Failed"
                         /\ jobs[i].error = GEMINI_QUOTA_MSG
    /\ \E k \in JobIds : /\ jobs[k].status = "Failed"
                         /\ jobs[k].error = DEEPAI_QUOTA_MSG
    /\ now = 0
    /\ jobStartTimestamps = <<0, 0>>

\* C18: ticks are single steps, and with the scheduler left alone, the
\* interval firing, every dispatch settling and time passing, every Pending
\* job whose provider has a key is eventually Processing, unless a provider
\* runs out of quota first, which halts the scheduler.
C18_PendingEventuallyStarted ==
    \A id \in 1..MaxLiveJobs :
        (id \in EligiblePending)
          ~> ( \/ id \in JobIds /\ jobs[id].status = "Processing"
               \/ quotaExceededProviders # {} )

\* C18 as stated: every Pending job whose provider has a key is eventually
\* Processing.
C18_Original ==
    \A id \in 1..MaxLiveJobs :
        (id \in EligiblePending) ~> (id \in JobIds /\ jobs[id].status = "Processing")

\* A job that waited for a rate slot: it failed three times while the window
\* filled up, the window went by, and a tick started it a fourth time.
C18_Witness ==
    \E id \in JobIds :
        /\ jobs[id].status = "Processing"
        /\ jobs[id].retryCount = MAX_RETRIES
        /\ jobStartTimestamps = <<now>>
        /\ quotaExceededProviders = {}

\* C19: enqueueing a batch of templates appends one job per template, in the
\* order of the batch, after all the jobs there were; each new job is Pending
\* with retryCount 0, no result, no error and an id no other job has; the
\* jobs there were, their dispatches, the timestamps, the cancellation
\* registry, the quota set and the keys are left as they were.  No other
\* step changes the length of the list.
C19_EnqueueFrame ==
    [][ /\ \A newJobs \in Batches(DirectTemplates) :
              AddJobs(newJobs, MaxJobs)
              => /\ Len(jobs') = Len(jobs) + Len(newJobs)
                 /\ SubSeq(jobs', 1, Len(jobs)) = jobs
                 /\ \A k \in 1..Len(newJobs) :
                       LET j == jobs'[Len(jobs) + k]
                       IN  /\ j.status = "Pending"
                           /\ j.retryCount = 0
                           /\ j.resultUrl = Undefined
                           /\ j.resultUrls = Undefined
                           /\ j.error = Undefined
                           /\ j.prompt = newJobs[k].prompt
                           /\ j.inputType = newJobs[k].inputType
                           /\ j.model = newJobs[k].model
                           /\ \A i \in 1..Len(jobs') :
                                 i # Len(jobs) + k => jobs'[i].id # j.id
                 /\ SubSeq(inFlight', 1, Len(jobs)) = inFlight
                 /\ UNCHANGED <<jobStartTimestamps, cancelledJobIds,
                                quotaExceededProviders, apiKeys>>
        /\ Len(jobs') # Len(jobs)
              => \E newJobs \in Batches(DirectTemplates) : AddJobs(newJobs, MaxJobs) ]_vars

\* A job of another model enqueued behind a job that is being processed: the
\* new job is fresh and the dispatch and timestamp of the first are in place.
C19_Witness ==
    /\ Len(jobs) = 2
    /\ jobs[1].status = "Processing"
    /\ inFlight = <<1, 0>>
    /\ jobStartTimestamps = <<0>>
    /\ now = 0
    /\ jobs[2].status = "Pending"
    /\ jobs[2].retryCount = 0
    /\ jobs[2].error = Undefined
    /\ jobs[2].model # jobs[1].model
    /\ 2 \in EligiblePending

\* C20: when a dispatch of a job whose id is in cancelledJobIds settles, with
\* whatever outcome, the only effects are that the id leaves the registry and
\* the dispatch is over: the job list and quotaExceededProviders are as they
\* were, so exhausted quota reported for a cancelled job does not halt the
\* scheduler.
C20_CancelledResolutionConsumesMark ==
    [][ \A id \in JobIds : \A outcome \in processJob(jobs[id]) :
          ( /\ inFlight[id] > 0
            /\ id \in cancelledJobIds
            /\ Settle(id, outcome) )
          => /\ cancelledJobIds' = cancelledJobIds \ {id}
             /\ jobs' = jobs
             /\ quotaExceededProviders' = quotaExceededProviders
             /\ halted(quotaExceededProviders') = halted(quotaExceededProviders)
             /\ UNCHANGED <<apiKeys, jobStartTimestamps, now>> ]_vars

\* The dispatch of a cancelled job has settled and its mark is gone; no
\* provider is out of quota and the other job is being processed.
C20_Witness ==
    \E id \in JobIds : \E k \in JobIds :
        /\ jobs[id].status = "Failed"
        /\ jobs[id].error = CANCELLED_MSG
        /\ inFlight[id] = 0
        /\ id \notin cancelledJobIds
        /\ Len(jobStartTimestamps) = 2
        /\ now = 0
        /\ quotaExceededProviders = {}
        /\ jobs[k].status = "Processing"
        /\ jobs[k].retryCount = 0

\* C21: every id in cancelledJobIds belongs to a job that has a dispatch
\* still to settle (so that the mark is consumed when it does).
C21_RegistryBoundedByInFlight ==
    \A id \in cancelledJobIds : id \in JobIds /\ inFlight[id] > 0

RECURSIVE SumInFlight(_, _, _)
SumInFlight(fl, ids, k) ==
    IF k > Len(fl) THEN 0
    ELSE (IF k \in ids THEN fl[k] ELSE 0) + SumInFlight(fl, ids, k + 1)

\* C23, as amended: the dispatches started and not yet settled, leaving out
\* those of jobs that were cancelled while their dispatch was running, are
\* never more than MAX_CONCURRENT_JOBS.
C23_LiveDispatchesWithinLimit ==
    SumInFlight(inFlight, JobIds \ cancelledJobIds, 1) <= MAX_CONCURRENT_JOBS

\* C23 as stated: the dispatches started and not yet settled, those of
\* cancelled jobs included, are never more than MAX_CONCURRENT_JOBS.
C23_Original == SumInFlight(inFlight, JobIds, 1) <= MAX_CONCURRENT_JOBS

\* Four dispatches of jobs that are not cancelled are running next to the
\* dispatch of a job cancelled while Processing, whose slot a tick gave away.
C23_Witness ==
    /\ SumInFlight(inFlight, JobIds \ cancelledJobIds, 1) = MAX_CONCURRENT_JOBS
    /\ SumInFlight(inFlight, JobIds, 1) = MAX_CONCURRENT_JOBS + 1
    /\ ProcessingCount = MAX_CONCURRENT_JOBS

\* C24: a job has a result, resultUrl or resultUrls, only if its status is
\* Completed.
C24_ResultOnlyIfCompleted ==
    \A id \in JobIds :
        (jobs[id].resultUrl # Undefined \/ jobs[id].resultUrls # Undefined)
        => jobs[id].status = "Completed"

\* A Completed job with its result next to a job cancelled while Processing
\* whose dispatch has settled: the second has no result.
C24_Witness ==
    \E i \in JobIds : \E k \in JobIds :
        /\ jobs[i].status = "Completed"
        /\ jobs[i].resultUrl # Undefined
        /\ jobs[k].status = "Failed"
        /\ jobs[k].error = CANCELLED_MSG
        /\ k \notin cancelledJobIds
        /\ inFlight[k] = 0
        /\ jobs[k].resultUrl = Undefined

\* C25: a job has an error message only if it is Failed, or it is Pending or
\* Processing with retryCount > 0, and then the message is the one of the
\* automatic retry; a Completed job has none, and neither has a Pending or
\* Processing job with retryCount 0.
C25_ErrorOnlyIfFailedOrRetrying ==
    \A id \in JobIds :
        jobs[id].error # Undefined
        => \/ jobs[id].status = "Failed"
           \/ /\ jobs[id].status \in {"Pending", "Processing"}
              /\ jobs[id].retryCount > 0
              /\ jobs[id].error = AUTO_RETRY_MSG

\* A job dispatched again after a failure still shows the automatic-retry
\* message while Processing; a job that completed after a failure shows none.
C25_Witness ==
    \E i \in JobIds : \E k \in JobIds :
        /\ jobs[i].status = "Processing"
        /\ jobs[i].retryCount > 0
        /\ jobs[i].error = AUTO_RETRY_MSG
        /\ jobs[k].status = "Completed"
        /\ jobs[k].retryCount > 0
        /\ jobs[k].error = Undefined

\* C26: a step changes a job's retryCount only by adding exactly 1 when a
\* failed dispatch sends the job from Processing back to Pending, or by
\* setting it to 0 when the user retries the job; starting a job, completing
\* it, cancelling it and failing it for exhausted quota leave it as it was.
C26_RetryCountFrame ==
    [][ \A id \in JobIds :
          jobs'[id].retryCount # jobs[id].retryCount
          => \/ /\ jobs'[id].retryCount = jobs[id].retryCount + 1
                /\ jobs[id].status = "Processing"
                /\ jobs'[id].status = "Pending"
                /\ jobs'[id].error = AUTO_RETRY_MSG
                /\ inFlight'[id] = inFlight[id] - 1
             \/ /\ jobs'[id].retryCount = 0
                /\ handleRetryJob(id) ]_vars

\* Two Failed jobs that kept the count of their earlier automatic retry: one
\* was cancelled, the other ran out of quota.
C26_Witness ==
    \E i \in JobIds : \E k \in JobIds :
        /\ jobs[i].status = "Failed"
        /\ jobs[i].error = CANCELLED_MSG
        /\ jobs[i].retryCount > 0
        /\ jobs[k].status = "Failed"
        /\ jobs[k].error = GEMINI_QUOTA_MSG
        /\ jobs[k].retryCount > 0

\* C27: a job is dispatched at most MAX_RETRIES + 1 times between being
\* enqueued or retried by the user and ending; a job whose dispatches all
\* failed with an error other than exhausted quota, and that was not
\* cancelled, is Failed exactly when the (MAX_RETRIES + 1)-th has failed,
\* with the message of that error; and a Failed job is not dispatched again
\* unless the user retries it.
C27_FailsAfterMaxRetriesPlusOne ==
    /\ [] (\A id \in JobIds :
             /\ dispatchCount[id] <= MAX_RETRIES + 1
             /\ (jobs[id].status = "Failed" /\ jobs[id].error # CANCELLED_MSG)
                  => /\ dispatchCount[id] = MAX_RETRIES + 1
                     /\ jobs[id].retryCount = MAX_RETRIES
                     /\ jobs[id].error = NOT_RELEASED_MSG
                     /\ inFlight[id] = 0
             /\ (jobs[id].status \in {"Pending", "Processing"}
                   /\ jobs[id].error # CANCELLED_MSG)
                  => dispatchCount[id]
                       = jobs[id].retryCount
                           + (IF jobs[id].status = "Processing" THEN 1 ELSE 0))
    /\ [][ \A id \in JobIds :
             jobs[id].status = "Failed"
             => \/ /\ dispatchCount'[id] = dispatchCount[id]
                   /\ inFlight'[id] <= inFlight[id]
                   /\ jobs'[id].status = "Failed"
                \/ handleRetryJob(id) ]_vars

\* A job of the unreleased provider given up after its fourth dispatch, the
\* last of them after the rate window of the first ones had passed.
C27_Witness ==
    \E id \in JobIds :
        /\ jobs[id].status = "Failed"
        /\ jobs[id].error = NOT_RELEASED_MSG
        /\ jobs[id].retryCount = MAX_RETRIES
        /\ dispatchCount[id] = MAX_RETRIES + 1
        /\ jobStartTimestamps = <<now>>
        /\ now > 0

\* C28: at every reading of the clock the prune keeps exactly the recorded
\* timestamps less than one window old, in their order (one that is exactly
\* one window old goes); the free rate slots are RATE_LIMIT_COUNT minus the
\* number kept and are never negative; pruning the pruned list again at the
\* same reading changes neither the list nor the slots; and a tick leaves
\* the kept timestamps followed by one timestamp per job it starts.
C28_PruneAndSlots ==
    /\ [] LET ts == jobStartTimestamps
              n == InWindowCount(ts, now)
              pruned == PruneTimestamps(ts, now)
          IN  /\ Len(pruned) = n
              /\ pruned = SubSeq(ts, Len(ts) - n + 1, Len(ts))
              /\ \A k \in 1..Len(pruned) : now - pruned[k] < RATE_LIMIT_WINDOW_MS
              /\ \A k \in 1..(Len(ts) - n) : now - ts[k] >= RATE_LIMIT_WINDOW_MS
              /\ availableRateLimitSlots(ts, now) = RATE_LIMIT_COUNT - n
              /\ availableRateLimitSlots(ts, now) >= 0
              /\ PruneTimestamps(pruned, now) = pruned
              /\ availableRateLimitSlots(pruned, now) = availableRateLimitSlots(ts, now)
    /\ [][ Tick =>
             LET n == InWindowCount(jobStartTimestamps, now)
                 m == Len(jobStartTimestamps)
             IN  /\ Len(jobStartTimestamps') = n + Cardinality(Started)
                 /\ SubSeq(jobStartTimestamps', 1, n)
                      = SubSeq(jobStartTimestamps, m - n + 1, m)
                 /\ \A k \in (n + 1)..Len(jobStartTimestamps') :
                       jobStartTimestamps'[k] = now ]_vars

\* The only job was dispatched at 0, at 1 and, one window after the first
\* dispatch, a third time: that tick dropped the timestamp exactly one window
\* old and kept the one a millisecond younger.
C28_Witness ==
    /\ Len(jobs) = 1
    /\ dispatchCount[1] = 3
    /\ now = RATE_LIMIT_WINDOW_MS
    /\ jobStartTimestamps = <<1, RATE_LIMIT_WINDOW_MS>>

\* C29: a tick changes every job it selects from Pending to Processing and
\* nothing else of the job, starts one dispatch of it and records one
\* timestamp for it, for all selected jobs in the same step; it leaves every
\* other job and its dispatches alone; the timestamps after the tick are the
\* ones less than a window old plus one per selected job.  A tick that
\* selects no job changes only the timestamps, by dropping the old ones.
C29_TickPerJobEffects ==
    [][ Tick =>
          LET selected == Range(jobsToStart(jobs, apiKeys, jobStartTimestamps, now))
              kept == InWindowCount(jobStartTimestamps, now)
          IN  /\ \A id \in selected :
                    /\ jobs[id].status = "Pending"
                    /\ jobs'[id] = [jobs[id] EXCEPT !.status = "Processing"]
                    /\ inFlight'[id] = inFlight[id] + 1
                    /\ dispatchCount'[id] = dispatchCount[id] + 1
              /\ \A id \in JobIds \ selected :
                    /\ jobs'[id] = jobs[id]
                    /\ inFlight'[id] = inFlight[id]
                    /\ dispatchCount'[id] = dispatchCount[id]
              /\ Len(jobStartTimestamps') = kept + Cardinality(selected)
              /\ \A k \in (kept + 1)..Len(jobStartTimestamps') :
                    jobStartTimestamps'[k] = now
              /\ selected = {}
                   => /\ jobs' = jobs
                      /\ Len(jobStartTimestamps') = kept
                      /\ \A k \in 1..kept :
                            now - jobStartTimestamps'[k] < RATE_LIMIT_WINDOW_MS
              /\ UNCHANGED <<apiKeys, quotaExceededProviders, cancelledJobIds>> ]_vars

\* A job was dispatched in the first window; one window later a tick, kept
\* firing by a Pending job that has no key, selected nothing and dropped the
\* timestamp.
C29_Witness ==
    /\ now = RATE_LIMIT_WINDOW_MS
    /\ jobStartTimestamps = <<>>
    /\ \E id \in JobIds : dispatchCount[id] >= 1
    /\ \E k \in JobIds : jobs[k].status = "Pending" /\ ~HasCredential(jobs[k], apiKeys)

\* Two jobs selected by the same tick: both Processing, a dispatch and a
\* timestamp for each.
C29_BothStarted ==
    /\ Len(jobs) = 2
    /\ \A id \in JobIds : jobs[id].status = "Processing" /\ inFlight[id] = 1
    /\ jobStartTimestamps = <<now, now>>

\* C30: a step that returns a job to Pending, after a failed dispatch or by
\* the user's retry, leaves the list as long as it was, every other job as
\* it was and the job itself at its position with its prompt, input type and
\* model, and the job's provider has a key; and in every reachable state the
\* jobs a tick selects are in list order, and a Pending job with a key is
\* selected, and stands earlier in the selection, whenever a Pending job
\* behind it in the list is selected.
C30_RetriedJobKeepsPosition ==
    /\ [] LET selected == jobsToStart(jobs, apiKeys, jobStartTimestamps, now)
          IN  /\ \A a \in 1..Len(selected) : \A b \in 1..Len(selected) :
                    a < b => selected[a] < selected[b]
              /\ \A i \in EligiblePending : \A k \in JobIds :
                    (i < k /\ jobs[k].status = "Pending" /\ k \in Range(selected))
                    => i \in Range(selected)
    /\ [][ \A id \in JobIds :
             (jobs[id].status \in {"Processing", "Failed"} /\ jobs'[id].status = "Pending")
             => /\ Len(jobs') = Len(jobs)
                /\ \A k \in JobIds \ {id} : jobs'[k] = jobs[k]
                /\ jobs'[id].prompt = jobs[id].prompt
                /\ jobs'[id].inputType = jobs[id].inputType
                /\ jobs'[id].model = jobs[id].model
                /\ HasCredential(jobs'[id], apiKeys') ]_vars

\* A job is back to Pending after a failed dispatch, a job behind it in the
\* list waits with a key, one slot is free, and the slot is the retried
\* job's.
C30_Witness ==
    \E i \in JobIds : \E k \in JobIds :
        /\ i < k
        /\ jobs[i].status = "Pending"
        /\ jobs[i].retryCount > 0
        /\ jobs[i].error = AUTO_RETRY_MSG
        /\ k \in EligiblePending
        /\ quotaExceededProviders = {}
        /\ FreeSlots = 1
        /\ jobsToStart(jobs, apiKeys, jobStartTimestamps, now) = <<i>>

\* C31: while quotaExceededProviders is non-empty, the settling of a
\* dispatch of a job that is not cancelled is applied as at any other time:
\* a success leaves the job Completed with the result and no error, an error
\* other than exhausted quota leaves it Pending with retryCount + 1 and the
\* automatic-retry message, or Failed with the error's message at
\* MAX_RETRIES, and the set of providers out of quota does not shrink; and
\* no step dispatches a Pending job while the set is non-empty.
C31_ResolutionsAppliedWhileHalted ==
    [][ /\ \A id \in JobIds : \A outcome \in processJob(jobs[id]) :
             ( /\ quotaExceededProviders # {}
               /\ inFlight[id] > 0
               /\ id \notin cancelledJobIds
               /\ Settle(id, outcome) )
             => /\ quotaExceededProviders \subseteq quotaExceededProviders'
                /\ outcome.kind = "ok"
                     => /\ jobs'[id].status = "Completed"
                        /\ ResultOf(jobs'[id]) = outcome.result
                        /\ jobs'[id].error = Undefined
                /\ outcome.kind = "error"
                     => IF jobs[id].retryCount < MAX_RETRIES
                        THEN /\ jobs'[id].status = "Pending"
                             /\ jobs'[id].retryCount = jobs[id].retryCount + 1
                             /\ jobs'[id].error = AUTO_RETRY_MSG
                        ELSE /\ jobs'[id].status = "Failed"
                             /\ jobs'[id].retryCount = jobs[id].retryCount
                             /\ jobs'[id].error = outcome.message
        /\ \A id \in JobIds :
             (quotaExceededProviders # {} /\ jobs[id].status = "Pending")
             => /\ jobs'[id].status # "Processing"
                /\ inFlight'[id] = inFlight[id]
                /\ dispatchCount'[id] = dispatchCount[id] ]_vars

\* A provider is out of quota and the job that found it out is Failed; the
\* other job's dispatch has failed with a plain error and the job waits for
\* its automatic retry with a key, a free slot and no dispatch running.
C31_Witness ==
    /\ quotaExceededProviders # {}
    /\ FreeSlots > 0
    /\ \E a \in JobIds : \E b \in JobIds :
          /\ a # b
          /\ jobs[a].status = "Failed"
          /\ jobs[a].error \in {GEMINI_QUOTA_MSG, DEEPAI_QUOTA_MSG}
          /\ b \in EligiblePending
          /\ jobs[b].retryCount > 0
          /\ jobs[b].error = AUTO_RETRY_MSG
          /\ inFlight[b] = 0

\* C32: no step changes the id, prompt, model, aspectRatio, outputs,
\* inputType or image of a job in the list or removes a job; and a step of
\* handleCancelJob(id), of handleRetryJob(id) or of the settling of a
\* dispatch of job id leaves the list as long as it was and every job other
\* than id as it was.
C32_FrameOfTargetedOperations ==
    [][ /\ Len(jobs') >= Len(jobs)
        /\ \A id \in JobIds :
              /\ jobs'[id].id = jobs[id].id
              /\ jobs'[id].prompt = jobs[id].prompt
              /\ jobs'[id].model = jobs[id].model
              /\ jobs'[id].aspectRatio = jobs[id].aspectRatio
              /\ jobs'[id].outputs = jobs[id].outputs
              /\ jobs'[id].inputType = jobs[id].inputType
              /\ jobs'[id].image = jobs[id].image
        /\ \A id \in JobIds :
              ( \/ handleCancelJob(id)
                \/ handleRetryJob(id)
                \/ inFlight[id] > 0 /\ \E outcome \in processJob(jobs[id]) : Settle(id, outcome) )
              => /\ Len(jobs') = Len(jobs)
                 /\ \A k \in JobIds \ {id} : jobs'[k] = jobs[k] ]_vars

\* Two jobs submitted with different models, aspect ratios and numbers of
\* outputs: the dispatch of the first has settled and completed it, the
\* second was cancelled by the user, and each has the fields it came with.
C32_Witness ==
    /\ Len(jobs) = 2
    /\ jobs[1].status = "Completed"
    /\ jobs[1].model = "veo-2.0-generate-001"
    /\ jobs[1].aspectRatio = "16:9"
    /\ jobs[1].outputs = 1
    /\ jobs[2].status = "Failed"
    /\ jobs[2].error = CANCELLED_MSG
    /\ jobs[2].model = "deepai-video"
    /\ jobs[2].aspectRatio = "9:16"
    /\ jobs[2].outputs = 2

\* C33: pollOperation returns only from the loop test and only when the
\* operation it holds is done; every query comes after a timer of its own
\* (the timers awaited are as many as the queries made, one more while a
\* query is awaited); when the submitted operation is done no timer and no
\* query happens; a query that rejects makes pollOperation throw, nothing
\* else does, and the dispatch then fails; and at the loop test an operation
\* that is not done sends the helper to the timer again, however many
\* rounds it has made.
C33_PollUntilDone ==
    /\ [] ( /\ pollPc = "returned" => currentOperation.done
            /\ pollWaits = pollQueries + (IF pollPc = "query" THEN 1 ELSE 0)
            /\ operation.done
                 => /\ pollQueries = 0
                    /\ pollWaits = 0
                    /\ pollPc \in {"while", "returned"}
            /\ (pollPc = "thrown" /\ pollOutcome # Undefined)
                 => pollOutcome \in {"error", "quota"} )
    /\ [][ /\ pollPc = "query"
              => /\ pollPc' \in {"while", "thrown"}
                 /\ pollQueries' = pollQueries + 1
           /\ pollQueries' # pollQueries => pollPc = "query"
           /\ (pollPc' = "thrown" /\ pollPc # "thrown") => pollPc = "query"
           /\ (pollPc' = "returned" /\ pollPc # "returned")
              => /\ pollPc = "while"
                 /\ currentOperation.done
                 /\ currentOperation' = currentOperation
           /\ (pollPc = "while" /\ ~currentOperation.done) => pollPc' = "timer" ]_vars

\* The submitted operation was not done, the helper waited and asked more
\* than once, the last answer was done, and the video was delivered.
C33_Witness ==
    /\ operation.name # Undefined
    /\ ~operation.done
    /\ pollPc = "returned"
    /\ pollQueries >= 2
    /\ pollWaits = pollQueries
    /\ pollOutcome = "ok"

====
